---- MODULE Spec2Model ----
(***************************************************************************)
(* A model of hasher.py: the mount filter (load_mounts_to_skip,            *)
(* path_on_skipped_mount), the worker (hash_one, is_regular_file,          *)
(* blake2b_file) and the coordinator (hash_all and its nested drain) with  *)
(* the process pool between them.                                          *)
(*                                                                         *)
(* Python strings are sequences of one-character strings, so that prefix   *)
(* tests, splitting and ordering are computed and not assumed.             *)
(***************************************************************************)
EXTENDS Integers, Sequences, FiniteSets, TLC

None == "None"

\* ------------------------------------------------------------------------
\* Strings
\* ------------------------------------------------------------------------

\* os.sep
sep == "/"

\* ord(c) for the characters that occur in the paths of the model
ord(c) ==
    CASE c = "." -> 46
      [] c = "/" -> 47
      [] c = "a" -> 97
      [] c = "b" -> 98
      [] c = "c" -> 99
      [] c = "l" -> 108
      [] c = "r" -> 114
      [] c = "s" -> 115
      [] OTHER   -> 120

\* str.startswith
startswith(s, pfx) ==
    /\ Len(pfx) <= Len(s)
    /\ SubSeq(s, 1, Len(pfx)) = pfx

\* str < str, by code point and then by length
RECURSIVE str_lt(_, _)
str_lt(s, t) ==
    IF t = <<>> THEN FALSE
    ELSE IF s = <<>> THEN TRUE
    ELSE IF ord(Head(s)) /= ord(Head(t)) THEN ord(Head(s)) < ord(Head(t))
    ELSE str_lt(Tail(s), Tail(t))

\* str.split(c): the pieces of s between the occurrences of the character c,
\* cut at the positions of c in s
split(s, c) ==
    LET pos == { k \in 1..Len(s) : s[k] = c }
        cut(j) == IF j = 0 THEN 0
                  ELSE IF j > Cardinality(pos) THEN Len(s) + 1
                  ELSE CHOOSE k \in pos : Cardinality({ m \in pos : m < k }) = j - 1
    IN  [j \in 1..(Cardinality(pos) + 1) |-> SubSeq(s, cut(j - 1) + 1, cut(j) - 1)]

\* c.join(parts)
RECURSIVE join(_, _)
join(c, parts) ==
    IF parts = <<>> THEN <<>>
    ELSE IF Len(parts) = 1 THEN parts[1]
    ELSE parts[1] \o <<c>> \o join(c, Tail(parts))

\* the component loop of posixpath.normpath: drops '' and '.', resolves '..'
RECURSIVE norm_comps(_, _, _)
norm_comps(comps, new_comps, initial_slashes) ==
    IF comps = <<>> THEN new_comps
    ELSE LET comp == Head(comps)
             dotdot == <<".", ".">>
         IN  IF comp = <<>> \/ comp = <<".">>
             THEN norm_comps(Tail(comps), new_comps, initial_slashes)
             ELSE IF \/ comp /= dotdot
                     \/ (initial_slashes = 0 /\ new_comps = <<>>)
                     \/ (new_comps /= <<>> /\ new_comps[Len(new_comps)] = dotdot)
             THEN norm_comps(Tail(comps), Append(new_comps, comp), initial_slashes)
             ELSE IF new_comps /= <<>>
             THEN norm_comps(Tail(comps), SubSeq(new_comps, 1, Len(new_comps) - 1),
                             initial_slashes)
             ELSE norm_comps(Tail(comps), new_comps, initial_slashes)

\* posixpath.normpath
normpath(path) ==
    IF path = <<>> THEN <<".">>
    ELSE LET initial_slashes ==
                 IF ~startswith(path, <<sep>>) THEN 0
                 ELSE IF startswith(path, <<sep, sep>>)
                         /\ ~startswith(path, <<sep, sep, sep>>) THEN 2
                 ELSE 1
             body == join(sep, norm_comps(split(path, sep), <<>>, initial_slashes))
             res == [i \in 1..initial_slashes |-> sep] \o body
         IN  IF res = <<>> THEN <<".">> ELSE res

\* os.getcwd() of the scanning process
cwd == <<"/", "r">>

\* os.path.abspath
abspath(path) ==
    IF startswith(path, <<sep>>) THEN normpath(path)
    ELSE normpath(cwd \o <<sep>> \o path)

\* ------------------------------------------------------------------------
\* MountFilter
\* ------------------------------------------------------------------------

SKIP_FS_TYPES == {
    <<"p","r","o","c">>,
    <<"s","y","s","f","s">>,
    <<"d","e","v","t","m","p","f","s">>,
    <<"d","e","v","p","t","s">>,
    <<"t","m","p","f","s">>,
    <<"h","u","g","e","t","l","b","f","s">>,
    <<"c","g","r","o","u","p">>,
    <<"c","g","r","o","u","p","2">>,
    <<"c","o","n","f","i","g","f","s">>,
    <<"f","u","s","e","c","t","l">>,
    <<"d","e","b","u","g","f","s">>,
    <<"s","e","c","u","r","i","t","y","f","s">>,
    <<"p","s","t","o","r","e">>,
    <<"b","p","f">>,
    <<"t","r","a","c","e","f","s">>,
    <<"r","a","m","f","s">>,
    <<"a","u","t","o","f","s">>,
    <<"s","o","c","k","f","s">>,
    <<"p","i","p","e","f","s">>,
    <<"o","v","e","r","l","a","y">>,
    <<"s","q","u","a","s","h","f","s">>,
    <<"n","s","f","s">>,
    <<"b","i","n","f","m","t","_","m","i","s","c">>,
    <<"r","p","c","_","p","i","p","e","f","s">>,
    <<"m","q","u","e","u","e">>,
    <<"z","r","a","m","f","s">>,
    <<"z","s","m","a","l","l","o","c">> }

SKIP_FS_PREFIXES == {
    <<"c","g","r","o","u","p">>,
    <<"f","u","s","e",".">>,
    <<"f","u","s","e","c","t","l">> }

\* a test that knows the listed types only
fstype_listed(fstype) == fstype \in SKIP_FS_TYPES

\* the test of line 43 on one mount-table entry
fstype_skipped(fstype) ==
    \/ fstype \in SKIP_FS_TYPES
    \/ \E pfx \in SKIP_FS_PREFIXES : startswith(fstype, pfx)

\* the sort key (-len(p), p) of line 47
key_lt(p, q) ==
    \/ Len(p) > Len(q)
    \/ (Len(p) = Len(q) /\ str_lt(p, q))

\* sorted(set, key=...)
RECURSIVE sorted(_)
sorted(S) ==
    IF S = {} THEN <<>>
    ELSE LET m == CHOOSE x \in S : \A y \in S \ {x} : key_lt(x, y)
         IN  <<m>> \o sorted(S \ {m})

\* the characters str.strip() and str.split() take for white space
whitespace == {" ", "\t", "\n"}

\* str.strip(): without the white space at both ends
strip(s) ==
    LET keep == { k \in 1..Len(s) : s[k] \notin whitespace }
    IN  IF keep = {} THEN <<>>
        ELSE SubSeq(s, CHOOSE a \in keep : \A b \in keep : a <= b,
                       CHOOSE a \in keep : \A b \in keep : a >= b)

\* str.split(): the runs of characters that are not white space
split_ws(s) ==
    LET starts == { k \in 1..Len(s) :
                      s[k] \notin whitespace /\ (k = 1 \/ s[k - 1] \in whitespace) }
        nth(j) == CHOOSE k \in starts : Cardinality({ m \in starts : m < k }) = j - 1
        stop(k) == CHOOSE e \in k..Len(s) :
                       /\ \A m \in k..e : s[m] \notin whitespace
                       /\ (e = Len(s) \/ s[e + 1] \in whitespace)
    IN  [j \in 1..Cardinality(starts) |-> SubSeq(s, nth(j), stop(nth(j)))]

\* str.split(d, 1): cut at the first occurrence of d, one piece when there is
\* none
split_once(s, d) ==
    LET at == { k \in 1..(Len(s) - Len(d) + 1) : SubSeq(s, k, k + Len(d) - 1) = d }
    IN  IF at = {} THEN <<s>>
        ELSE LET k == CHOOSE a \in at : \A b \in at : a <= b
             IN  <<SubSeq(s, 1, k - 1), SubSeq(s, k + Len(d), Len(s))>>

\* the two files of line 25
mountinfo == "/proc/self/mountinfo"
mounts_file == "/proc/mounts"

\* The body of the loop over the lines, lines 29-41: the entry
\* [mountpoint, fstype] of a line, or nothing where the code continues (the
\* unpacking of line 31 or an index of lines 33-34 raises; fewer than three
\* fields at line 39).
parse_line(path, line) ==
    IF path = mountinfo
    THEN LET lr == split_once(strip(line), <<" ", "-", " ">>)
         IN  IF Len(lr) /= 2 THEN <<>>
             ELSE IF Len(split_ws(lr[1])) < 5 \/ Len(split_ws(lr[2])) < 1 THEN <<>>
             ELSE << [mountpoint |-> split_ws(lr[1])[5], fstype |-> split_ws(lr[2])[1]] >>
    ELSE LET parts == split_ws(line)
         IN  IF Len(parts) < 3 THEN <<>>
             ELSE << [mountpoint |-> parts[2], fstype |-> parts[3]] >>

\* the entries of the lines, in file order
RECURSIVE parse_lines(_, _)
parse_lines(path, lines) ==
    IF lines = <<>> THEN <<>>
    ELSE parse_line(path, Head(lines)) \o parse_lines(path, Tail(lines))

\* a reader that takes the lines of a table whose open() failed
lines_read_anyway(table) == table.lines

\* the lines the loop of line 28 sees: open() raising at line 27 is caught at
\* line 45 and the loop sees none
lines_read(table) == IF table.readable THEN table.lines ELSE <<>>

\* load_mounts_to_skip on the mount table [path, readable, lines] it finds
load_mounts_to_skip(table) ==
    LET entries == parse_lines(table.path, lines_read(table))
        mounts == { abspath(entries[i].mountpoint) :
                      i \in { k \in 1..Len(entries) : fstype_skipped(entries[k].fstype) } }
    IN  sorted(mounts)

\* path_on_skipped_mount(path, skip_mounts): the loop returns True at the
\* first m that matches and False when none does
path_on_skipped_mount(path, skip_mounts) ==
    LET ap == abspath(path)
    IN  \E i \in 1..Len(skip_mounts) :
            LET m == skip_mounts[i]
            IN  ap = m \/ startswith(ap, m \o <<sep>>)

\* ------------------------------------------------------------------------
\* Settings, scaled so that the runs are finite: every use of SUBMIT_BATCH is
\* a test of divisibility or a halving, so the protocol is the same at 4 as at
\* 5000, with batch drains of SUBMIT_BATCH \div 2 tasks (two at a time here,
\* so that a batch drain has a completion order).
\* ------------------------------------------------------------------------

SUBMIT_BATCH == 4

\* PROGRESS_EVERY, scaled from 200 in the same way: it is only used in the
\* test done % PROGRESS_EVERY == 0
PROGRESS_EVERY == 3

\* ------------------------------------------------------------------------
\* Bounds of the model
\* ------------------------------------------------------------------------

\* the largest number of file entries os.walk discovers under the root
MaxFiles == 8

\* the largest pool size (the workers argument of hash_all)
MaxWorkers == 2

\* how many times the tree is modified behind the scanner's back in one run
MaxMutations == 1

\* the largest number of file entries in the runs on a changing tree
MaxRaceFiles == 4

\* the largest number of file entries in the runs on an output file that may
\* already hold records
MaxAppendFiles == 5

\* the largest number of lines of a mount table given to load_mounts_to_skip
\* on its own
MaxLines == 3

\* ------------------------------------------------------------------------
\* The scanned tree and the mount table
\* ------------------------------------------------------------------------

\* The file entries under the root /r in the order os.walk yields them: the
\* files of /r, then those of /r/s, then those of /r/sb.  kind is what the
\* path is (reg: regular file, link: symbolic link to a regular file) and
\* content what reading through the path returns.  The first four entries are
\* the tree a, b, link -> a, sub/c.
Walk == <<
    [path |-> <<"/","r","/","a">>,         kind |-> "reg",  content |-> "hello"],
    [path |-> <<"/","r","/","b">>,         kind |-> "reg",  content |-> "hello"],
    [path |-> <<"/","r","/","l">>,         kind |-> "link", content |-> "hello"],
    [path |-> <<"/","r","/","s","/","c">>, kind |-> "reg",  content |-> "world"],
    [path |-> <<"/","r","/","s","/","a">>, kind |-> "reg",  content |-> ""],
    [path |-> <<"/","r","/","s","b","/","a">>, kind |-> "reg", content |-> "world"],
    [path |-> <<"/","r","/","s","b","/","b">>, kind |-> "reg", content |-> "hello"],
    [path |-> <<"/","r","/","s","b","/","c">>, kind |-> "reg", content |-> ""],
    [path |-> <<"/","r","/","s","b","/","l">>, kind |-> "link", content |-> "world"] >>

Min(a, b) == IF a < b THEN a ELSE b

\* lines of /proc/self/mountinfo (the mount point is the fifth field, the
\* type the first after the dash) and of /proc/mounts (second and third field)
info_root_ext4 == <<"1"," ","2"," ","3"," ","/"," ","/"," ","r","w"," ","-"," ","e","x","t","4"," ","d"," ","r","w","\n">>
info_s_tmpfs == <<"1"," ","2"," ","3"," ","/"," ","/","r","/","s"," ","r","w"," ","-"," ","t","m","p","f","s"," ","t"," ","r","w","\n">>
mounts_root_overlay == <<"o"," ","/"," ","o","v","e","r","l","a","y"," ","r","w"," ","0"," ","0","\n">>

\* the mount tables a run may find: one that cannot be opened, one with
\* nothing to exclude, one that excludes /r/s, one that excludes the root
MountTables == {
    [path |-> mountinfo, readable |-> FALSE, lines |-> <<info_root_ext4, info_s_tmpfs>>],
    [path |-> mountinfo, readable |-> TRUE, lines |-> <<info_root_ext4>>],
    [path |-> mountinfo, readable |-> TRUE, lines |-> <<info_root_ext4, info_s_tmpfs>>],
    [path |-> mounts_file, readable |-> TRUE, lines |-> <<mounts_root_overlay>>] }

\* what the tree may turn a path into after os.walk has listed it
MutKinds == {"noperm", "badio", "link", "gone"}

\* what reading through a path yields once it has been replaced by a link
LinkTarget == "target"

\* ------------------------------------------------------------------------
\* FileProbe and DigestWorker
\* ------------------------------------------------------------------------

\* is_regular_file: os.lstat does not follow links; an OSError (the path is
\* gone) gives False
is_regular_file(kind) ==
    IF kind = "gone" THEN FALSE
    ELSE kind \in {"reg", "noperm", "badio"}

\* hashlib.blake2b(...).hexdigest() of a content: injective on the contents of
\* the model, never empty
hexdigest(content) == <<"blake2b", content>>

\* blake2b_file that returns the digest of what was read before an I/O error
blake2b_file_partial(kind, content) ==
    IF kind \in {"reg", "link", "badio"} THEN hexdigest(content) ELSE None

\* blake2b_file that takes a read of no byte for a failure
blake2b_file_nonempty(kind, content) ==
    IF kind \in {"reg", "link"} /\ content /= "" THEN hexdigest(content) ELSE None

\* blake2b_file: open() follows links; any exception of open or read is caught
\* and gives None
blake2b_file(kind, content) ==
    IF kind \in {"reg", "link"} THEN hexdigest(content) ELSE None

\* check_hash
check_hash(digest) == [boolean |-> FALSE, reason |-> "DUMMY_REASON"]

\* the line drain writes for a digest
record_line(digest) ==
    LET v == check_hash(digest)
    IN  <<digest, IF v.boolean THEN "TRUE" ELSE "FALSE", v.reason>>

\* ------------------------------------------------------------------------
\* State
\* ------------------------------------------------------------------------

VARIABLES
    nfiles,       \* number of entries of Walk that exist under the root
    fs,           \* fs[i]: the present kind and content of the i-th path
    mounttab,     \* the mount table read at startup
    skip_mounts,  \* hash_all.skip_mounts
    workers,      \* hash_all.workers
    pc,           \* where the coordinator is: walk, drain, final, done, aborted
    nextIdx,      \* the next entry of Walk the os.walk loop yields
    submitted,    \* hash_all.submitted
    done,         \* hash_all.done
    errors,       \* hash_all.errors
    futures,      \* hash_all.futures, a list of tasks; task i hashes Walk[i]
    snapshot,     \* the futures as_completed has still to yield in this drain
    count,        \* drain.count
    ready,        \* the futures of the snapshot that had finished when as_completed
                  \* started, which it yields first, in no order of its own
    completed,    \* the finished futures not yet drained, in the order they finished
    out,          \* the lines written to out_file in this run, in order
    prior,        \* what out_file held before hash_all opened it
    outfile,      \* what out_file holds: the lines that have reached the file
    buffer,       \* the lines written to out and not yet flushed
    fstate,       \* per task: none, pending, hashing (inside hash_one), finished
    result,       \* per finished task: its digest, None, or BrokenProcessPool
    broken,       \* the pool has lost a worker process
    hung,         \* the task whose read blocks forever, 0 when there is none
    probed,       \* per task: the kind os.lstat saw, "-" before the probe
    opened,       \* per task: the kind open() met, "-" when it was never opened
    ndrained,     \* per task: how many times drain has processed its future
    mutations,    \* how many times the tree has been modified so far
    qpc,          \* the call of path_on_skipped_mount on its own: call, ret, off
    qpath,        \* its path argument
    qmounts,      \* its skip_mounts argument
    qres          \* its return value

vars == <<nfiles, fs, mounttab, skip_mounts, workers, pc, nextIdx, submitted,
          done, errors, futures, snapshot, count, out, fstate, result, broken,
          hung, probed, opened, ndrained, mutations, qpc, qpath, qmounts, qres,
          prior, outfile, buffer, ready, completed>>

coordVars == <<pc, nextIdx, submitted, done, errors, futures, snapshot, count, out,
               outfile, buffer, ready>>
envVars == <<nfiles, mounttab, skip_mounts, workers, prior>>
qVars == <<qpc, qpath, qmounts, qres>>

Tasks == 1..nfiles

BrokenProcessPool == "BrokenProcessPool"

\* a drain that forgets to take the future out of the list
remove_keep(list, x) == list

\* list.remove: drops the first occurrence
RECURSIVE remove(_, _)
remove(list, x) ==
    IF list = <<>> THEN <<>>
    ELSE IF Head(list) = x THEN Tail(list)
    ELSE <<Head(list)>> \o remove(Tail(list), x)

\* futures[:n]
slice(list, n) == SubSeq(list, 1, Min(n, Len(list)))

\* a snapshot that holds only the oldest future of the list
elems_head(list) == IF list = <<>> THEN {} ELSE {list[1]}

\* list(futures) as the set as_completed waits on
elems(list) == { list[k] : k \in 1..Len(list) }

\* what out_file may hold before the run: nothing, or the record of an
\* earlier run
PriorOutputs == { <<>>, << record_line(hexdigest("hello")) >> }

\* open(out_file, 'w'): the file is emptied
open_truncate(content) == <<>>

\* open(out_file, 'a'), line 166: what the file held stays, writes go to its end
open_append(content) == content

\* a drain that never flushes between results
flush_never(n) == FALSE

\* the test of line 158
flush_due(n) == n % PROGRESS_EVERY = 0

\* the pool size hash_all passes to ProcessPoolExecutor
PoolSizes == 1..MaxWorkers

\* hash_all as it starts, on any of the trees, mount tables and output files
InitRun ==
    /\ nfiles \in 0..Min(MaxFiles, Len(Walk))
    /\ fs = [i \in 1..nfiles |-> [kind |-> Walk[i].kind, content |-> Walk[i].content]]
    /\ mounttab \in MountTables
    /\ skip_mounts = load_mounts_to_skip(mounttab)
    /\ workers \in PoolSizes
    /\ pc = "walk"
    /\ nextIdx = 1
    /\ submitted = 0
    /\ done = 0
    /\ errors = 0
    /\ futures = <<>>
    /\ snapshot = {}
    /\ count = 0
    /\ ready = {}
    /\ completed = <<>>
    /\ out = <<>>
    /\ prior \in PriorOutputs
    /\ outfile = open_append(prior)
    /\ buffer = <<>>
    /\ fstate = [i \in 1..nfiles |-> "none"]
    /\ result = [i \in 1..nfiles |-> None]
    /\ broken = FALSE
    /\ hung = 0
    /\ probed = [i \in 1..nfiles |-> "-"]
    /\ opened = [i \in 1..nfiles |-> "-"]
    /\ ndrained = [i \in 1..nfiles |-> 0]
    /\ mutations = 0
    /\ qpc = "off"
    /\ qpath = <<>>
    /\ qmounts = <<>>
    /\ qres = FALSE

\* a run that starts a new output file
Init ==
    /\ InitRun
    /\ prior = <<>>

\* ------------------------------------------------------------------------
\* The coordinator: hash_all
\* ------------------------------------------------------------------------

\* as_completed, line 146: the futures given to it that have finished when
\* the loop starts are put in a set and yielded first
finished_in(futs) == { i \in futs : fstate[i] = "finished" }

\* as_completed once those are yielded: it waits and yields the futures of
\* the snapshot as they finish, so the next is the earliest finished one
next_completed(futs) ==
    LET at == { k \in 1..Len(completed) : completed[k] \in futs }
    IN  IF at = {} THEN 0 ELSE completed[CHOOSE a \in at : \A b \in at : a <= b]

\* the argument of the batch drain, line 182
batch_n == SUBMIT_BATCH \div 2

\* the test of line 180
batch_due(n) == n % SUBMIT_BATCH = 0

\* One iteration of the loop over filenames, lines 170-184: submit the next
\* path whatever it is, and enter drain(n) when the counter asks for it.
\* pool.submit raises BrokenProcessPool on a broken pool, and nothing in
\* hash_all catches it: the with statement closes out, which flushes it.
\* heartbeat() only prints.
Submit ==
    /\ pc = "walk"
    /\ nextIdx <= nfiles
    /\ IF broken
       THEN /\ pc' = "aborted"
            /\ outfile' = outfile \o buffer
            /\ buffer' = <<>>
            /\ UNCHANGED <<nextIdx, submitted, futures, snapshot, count, ready, fstate>>
       ELSE /\ fstate' = [fstate EXCEPT ![nextIdx] = "pending"]
            /\ UNCHANGED <<outfile, buffer>>
            /\ futures' = Append(futures, nextIdx)
            /\ submitted' = submitted + 1
            /\ nextIdx' = nextIdx + 1
            /\ IF batch_due(submitted')
               THEN /\ snapshot' = elems(slice(futures', batch_n))
                    /\ ready' = finished_in(snapshot')
                    /\ count' = 0
                    /\ pc' = IF snapshot' = {} THEN "walk" ELSE "drain"
               ELSE UNCHANGED <<snapshot, count, pc, ready>>
    /\ UNCHANGED <<done, errors, out, result, broken, hung, probed, opened,
                   ndrained, mutations, fs, completed>>
    /\ UNCHANGED envVars
    /\ UNCHANGED qVars

\* The walk is over, lines 186-188: drain() takes a snapshot of all the
\* futures; with none left it returns at once, out is flushed and the run
\* ends.
WalkEnd ==
    /\ pc = "walk"
    /\ nextIdx > nfiles
    /\ snapshot' = elems(futures)
    /\ ready' = finished_in(snapshot')
    /\ count' = 0
    /\ pc' = IF snapshot' = {} THEN "done" ELSE "final"
    /\ IF snapshot' = {}
       THEN outfile' = outfile \o buffer /\ buffer' = <<>>
       ELSE UNCHANGED <<outfile, buffer>>
    /\ UNCHANGED <<nextIdx, submitted, done, errors, futures, out, fstate, result,
                   broken, hung, probed, opened, ndrained, mutations, fs, completed>>
    /\ UNCHANGED envVars
    /\ UNCHANGED qVars

\* a drain that takes every result for a digest
truthy_any(digest) == TRUE

\* the truth value of a digest, line 152
truthy(digest) == digest /= None /\ digest /= <<>>

\* One iteration of the loop of drain, lines 146-163, on a future that
\* as_completed yields: one of the snapshot that has finished.  fut.result()
\* re-raises what the pool stored in the future, after the future has left
\* the list.
DrainOne(i) ==
    /\ pc \in {"drain", "final"}
    /\ i \in snapshot
    /\ fstate[i] = "finished"
    /\ IF ready /= {} THEN i \in ready ELSE i = next_completed(snapshot)
    /\ ready' = ready \ {i}
    /\ completed' = remove(completed, i)
    /\ futures' = remove(futures, i)
    /\ ndrained' = [ndrained EXCEPT ![i] = @ + 1]
    /\ snapshot' = snapshot \ {i}
    /\ IF result[i] = BrokenProcessPool
       THEN /\ pc' = "aborted"
            /\ outfile' = outfile \o buffer
            /\ buffer' = <<>>
            /\ UNCHANGED <<out, errors, done, count>>
       ELSE /\ IF truthy(result[i])
               THEN /\ out' = Append(out, record_line(result[i]))
                    /\ UNCHANGED errors
               ELSE /\ errors' = errors + 1
                    /\ UNCHANGED out
            /\ done' = done + 1
            /\ count' = count + 1
            /\ pc' = IF pc = "drain"
                     THEN IF count' >= batch_n \/ snapshot' = {} THEN "walk" ELSE "drain"
                     ELSE IF snapshot' = {} THEN "done" ELSE "final"
            \* out.write puts the line in the buffer; out.flush of line 159, or
            \* of line 188 once the final drain has returned, moves the buffer
            \* to the file
            /\ LET written == IF truthy(result[i])
                              THEN Append(buffer, record_line(result[i]))
                              ELSE buffer
               IN  IF flush_due(done') \/ pc' = "done"
                   THEN outfile' = outfile \o written /\ buffer' = <<>>
                   ELSE outfile' = outfile /\ buffer' = written
    /\ UNCHANGED <<nextIdx, submitted, fstate, result, broken, hung, probed, opened,
                   mutations, fs>>
    /\ UNCHANGED envVars
    /\ UNCHANGED qVars

\* ------------------------------------------------------------------------
\* The pool and its workers: hash_one
\* ------------------------------------------------------------------------

running == { i \in Tasks : fstate[i] = "hashing" }

\* A free worker takes the oldest pending task and runs hash_one up to the
\* call of blake2b_file, lines 103-114: the mount test, then the lstat.
WorkerProbe(i) ==
    /\ i \in Tasks
    /\ fstate[i] = "pending"
    /\ \A j \in Tasks : j < i => fstate[j] /= "pending"
    /\ Cardinality(running) < workers
    /\ IF path_on_skipped_mount(Walk[i].path, skip_mounts)
       THEN /\ fstate' = [fstate EXCEPT ![i] = "finished"]
            /\ UNCHANGED probed
       ELSE /\ probed' = [probed EXCEPT ![i] = fs[i].kind]
            /\ fstate' = [fstate EXCEPT ![i] =
                            IF is_regular_file(fs[i].kind) THEN "hashing" ELSE "finished"]
    /\ completed' = IF fstate'[i] = "finished" THEN Append(completed, i) ELSE completed
    /\ UNCHANGED <<result, opened, broken, hung, ndrained, mutations, fs>>
    /\ UNCHANGED coordVars
    /\ UNCHANGED envVars
    /\ UNCHANGED qVars

\* blake2b_file and the return of hash_one, lines 116-117
WorkerRead(i) ==
    /\ i \in Tasks
    /\ fstate[i] = "hashing"
    /\ hung /= i
    /\ opened' = [opened EXCEPT ![i] = fs[i].kind]
    /\ result' = [result EXCEPT ![i] = blake2b_file(fs[i].kind, fs[i].content)]
    /\ fstate' = [fstate EXCEPT ![i] = "finished"]
    /\ completed' = Append(completed, i)
    /\ UNCHANGED <<probed, broken, hung, ndrained, mutations, fs>>
    /\ UNCHANGED coordVars
    /\ UNCHANGED envVars
    /\ UNCHANGED qVars

\* The read of one file blocks for good (a FIFO without a writer, a stalled
\* network file): its worker never returns.
Hang(i) ==
    /\ i \in Tasks
    /\ fstate[i] = "hashing"
    /\ hung = 0
    /\ ~broken
    /\ hung' = i
    /\ UNCHANGED <<fstate, result, broken, probed, opened, ndrained, mutations, fs,
                   completed>>
    /\ UNCHANGED coordVars
    /\ UNCHANGED envVars
    /\ UNCHANGED qVars

\* A worker process dies while it runs a task (killed, out of memory).
\* ProcessPoolExecutor then marks the pool broken and stores
\* BrokenProcessPool in every future that has not finished.
Crash(i) ==
    /\ i \in Tasks
    /\ fstate[i] = "hashing"
    /\ ~broken
    /\ broken' = TRUE
    /\ fstate' = [j \in Tasks |->
                    IF fstate[j] \in {"pending", "hashing"} THEN "finished" ELSE fstate[j]]
    /\ result' = [j \in Tasks |->
                    IF fstate[j] \in {"pending", "hashing"} THEN BrokenProcessPool
                    ELSE result[j]]
    /\ completed' = completed \o SelectSeq([j \in 1..nfiles |-> j],
                                            LAMBDA j : fstate[j] \in {"pending", "hashing"})
    /\ UNCHANGED <<hung, probed, opened, ndrained, mutations, fs>>
    /\ UNCHANGED coordVars
    /\ UNCHANGED envVars
    /\ UNCHANGED qVars

\* ------------------------------------------------------------------------
\* The tree changes under the scanner
\* ------------------------------------------------------------------------

\* Something else replaces, removes or locks a path that os.walk has already
\* listed, right before the worker looks at it: before the lstat of the task
\* a free worker is about to take, or between the lstat and the open of a
\* task inside hash_one.  (A change at any earlier moment is seen by the same
\* lstat or open; a change before the listing is a run on another tree.)
Mutate(i, k) ==
    /\ i \in Tasks
    /\ \/ fstate[i] = "hashing"
       \/ /\ fstate[i] = "pending"
          /\ \A j \in Tasks : j < i => fstate[j] /= "pending"
          /\ Cardinality(running) < workers
    /\ mutations < MaxMutations
    /\ k \in MutKinds
    /\ k /= fs[i].kind
    /\ fs' = [fs EXCEPT ![i] = [kind |-> k,
                                content |-> IF k = "link" THEN LinkTarget ELSE @.content]]
    /\ mutations' = mutations + 1
    /\ UNCHANGED <<fstate, result, broken, hung, probed, opened, ndrained, completed>>
    /\ UNCHANGED coordVars
    /\ UNCHANGED envVars
    /\ UNCHANGED qVars

\* the runs on a tree that stays as os.walk found it
Next ==
    \/ Submit
    \/ WalkEnd
    \/ \E i \in Tasks : DrainOne(i)
    \/ \E i \in Tasks : WorkerProbe(i)
    \/ \E i \in Tasks : WorkerRead(i)
    \/ \E i \in Tasks : Hang(i)
    \/ \E i \in Tasks : Crash(i)

Spec == Init /\ [][Next]_vars

\* the runs on a tree that changes during the scan, on the smaller trees and
\* with nothing excluded
InitRace ==
    /\ Init
    /\ nfiles <= MaxRaceFiles
    /\ mounttab.readable
    /\ skip_mounts = <<>>

NextRace ==
    \/ Next
    \/ \E i \in Tasks : \E k \in MutKinds : Mutate(i, k)

SpecRace == InitRace /\ [][NextRace]_vars

\* the runs that add to an output file which may hold the records of an
\* earlier run, on the smaller trees
InitAppend ==
    /\ InitRun
    /\ nfiles <= MaxAppendFiles

SpecAppend == InitAppend /\ [][Next]_vars

\* the steps of the single coordinating thread
Coordinator == Submit \/ WalkEnd \/ \E i \in Tasks : DrainOne(i)

\* the steps of the worker processes that return
Worker == \E i \in Tasks : WorkerProbe(i) \/ WorkerRead(i)

\* The scheduling of a run: the coordinator is one thread that takes its next
\* step whenever it can, a free worker takes the next pending task, and a
\* read that does not hang returns.  Nothing obliges a worker to crash or a
\* read to hang.
FairSpec ==
    /\ Spec
    /\ WF_vars(Coordinator)
    /\ WF_vars(Worker)

\* ------------------------------------------------------------------------
\* path_on_skipped_mount on its own
\* ------------------------------------------------------------------------

\* absolute paths to classify
PathInputs == {
    <<"/">>,
    <<"/","r">>,
    <<"/","s">>,
    <<"/","r","/","a">>,
    <<"/","r","/","s">>,
    <<"/","r","/","s","b">>,
    <<"/","r","/","s","/","c">>,
    <<"/","r","/","s","b","/","a">> }

\* mountpoints the excluded set is drawn from
MountInputs == {
    <<"/">>,
    <<"/","r">>,
    <<"/","r","/","s">>,
    <<"/","r","/","s","/","c">> }

InitMount ==
    /\ qpc = "call"
    /\ qpath \in PathInputs
    /\ qmounts \in { sorted(S) : S \in SUBSET MountInputs }
    /\ qres = FALSE
    /\ nfiles = 0
    /\ fs = <<>>
    /\ mounttab = [path |-> mountinfo, readable |-> FALSE, lines |-> <<>>]
    /\ skip_mounts = <<>>
    /\ workers = 1
    /\ pc = "off"
    /\ nextIdx = 1
    /\ submitted = 0
    /\ done = 0
    /\ errors = 0
    /\ futures = <<>>
    /\ snapshot = {}
    /\ count = 0
    /\ ready = {}
    /\ completed = <<>>
    /\ out = <<>>
    /\ prior = <<>>
    /\ outfile = <<>>
    /\ buffer = <<>>
    /\ fstate = <<>>
    /\ result = <<>>
    /\ broken = FALSE
    /\ hung = 0
    /\ probed = <<>>
    /\ opened = <<>>
    /\ ndrained = <<>>
    /\ mutations = 0

CallMount ==
    /\ qpc = "call"
    /\ qres' = path_on_skipped_mount(qpath, qmounts)
    /\ qpc' = "ret"
    /\ UNCHANGED <<qpath, qmounts>>
    /\ UNCHANGED <<fs, fstate, result, broken, hung, probed, opened, ndrained, mutations,
                   completed>>
    /\ UNCHANGED coordVars
    /\ UNCHANGED envVars

NextMount == CallMount

SpecMount == InitMount /\ [][NextMount]_vars

\* ------------------------------------------------------------------------
\* load_mounts_to_skip on its own
\* ------------------------------------------------------------------------

\* more lines: a type excluded by prefix, lines that do not parse (too few
\* fields before the dash, no dash, too few fields), a mount point written
\* with a trailing separator
info_sb_fuse == <<"1"," ","2"," ","3"," ","/"," ","/","r","/","s","b"," ","r","w"," ","-"," ","f","u","s","e",".","x"," ","f"," ","r","w","\n">>
info_short == <<"/","r","/","a"," ","-"," ","p","r","o","c","\n">>
info_nodash == <<"1"," ","2"," ","3"," ","/"," ","/","r","/","a"," ","r","w"," ","p","r","o","c"," ","p"," ","r","w","\n">>
mounts_a_proc == <<"p"," ","/","r","/","a","/"," ","p","r","o","c"," ","r","w"," ","0"," ","0","\n">>
mounts_s_tmpfs == <<"t"," ","/","r","/","s"," ","t","m","p","f","s"," ","r","w"," ","0"," ","0","\n">>
mounts_short == <<"p"," ","/","r","/","a","\n">>

LineInputs == { info_root_ext4, info_s_tmpfs, mounts_root_overlay, info_sb_fuse,
                info_short, info_nodash, mounts_a_proc, mounts_s_tmpfs, mounts_short }

\* the mount tables of up to MaxLines lines
TableInputs ==
    { [path |-> p, readable |-> r, lines |-> ls] :
        p \in {mountinfo, mounts_file},
        r \in BOOLEAN,
        ls \in UNION { [1..n -> LineInputs] : n \in 0..MaxLines } }

InitLoad ==
    /\ qpc = "load"
    /\ mounttab \in TableInputs
    /\ skip_mounts = <<>>
    /\ qpath = <<>>
    /\ qmounts = <<>>
    /\ qres = FALSE
    /\ nfiles = 0
    /\ fs = <<>>
    /\ workers = 1
    /\ pc = "off"
    /\ nextIdx = 1
    /\ submitted = 0
    /\ done = 0
    /\ errors = 0
    /\ futures = <<>>
    /\ snapshot = {}
    /\ count = 0
    /\ ready = {}
    /\ completed = <<>>
    /\ out = <<>>
    /\ prior = <<>>
    /\ outfile = <<>>
    /\ buffer = <<>>
    /\ fstate = <<>>
    /\ result = <<>>
    /\ broken = FALSE
    /\ hung = 0
    /\ probed = <<>>
    /\ opened = <<>>
    /\ ndrained = <<>>
    /\ mutations = 0

\* line 124: skip_mounts = load_mounts_to_skip()
CallLoad ==
    /\ qpc = "load"
    /\ skip_mounts' = load_mounts_to_skip(mounttab)
    /\ qpc' = "loaded"
    /\ UNCHANGED <<qpath, qmounts, qres>>
    /\ UNCHANGED <<nfiles, mounttab, workers, prior>>
    /\ UNCHANGED <<fs, fstate, result, broken, hung, probed, opened, ndrained, mutations,
                   completed>>
    /\ UNCHANGED coordVars

NextLoad == CallLoad

SpecLoad == InitLoad /\ [][NextLoad]_vars

\* ------------------------------------------------------------------------
\* What the properties speak of
\* ------------------------------------------------------------------------

\* the names between the separators of a path
components(p) == SelectSeq(split(p, sep), LAMBDA c : c /= <<>>)

\* m is p or an ancestor directory of p, by whole components
under_mount(p, m) ==
    LET cm == components(m)
        cp == components(p)
    IN  Len(cm) <= Len(cp) /\ SubSeq(cp, 1, Len(cm)) = cm

under_excluded(p, mounts) == \E k \in 1..Len(mounts) : under_mount(p, mounts[k])

\* a task has been handed to the pool
is_submitted(i) == fstate[i] /= "none"

\* a task has left the in-flight list with a result
is_drained(i) == ndrained[i] > 0

\* ------------------------------------------------------------------------
\* Properties
\* ------------------------------------------------------------------------

\* C1: the number of tasks in flight (the length of futures) never exceeds
\* SUBMIT_BATCH plus the pool size.
C1_InflightBounded == Len(futures) <= SUBMIT_BATCH + workers

\* C2: no task is ever submitted for a file under an excluded mount, and at
\* the end of the run submitted counts exactly the files outside them.
C2_NoTaskUnderExcludedMount ==
    /\ \A i \in Tasks : is_submitted(i) => ~under_excluded(Walk[i].path, skip_mounts)
    /\ pc = "done" =>
         submitted = Cardinality({ i \in Tasks : ~under_excluded(Walk[i].path, skip_mounts) })

\* C3: on the tree a, b, link -> a, sub/c with nothing excluded, nothing
\* failing and nothing changing, a complete run appends exactly the three
\* records of a, b and sub/c, those of a and b with the same digest, and ends
\* with submitted = 3, done = 3, errors = 0.
C3_Scenario ==
    (pc = "done" /\ nfiles = 4 /\ skip_mounts = <<>> /\ mutations = 0 /\ ~broken) =>
        /\ Len(out) = 3
        /\ out[1][1] = out[2][1]
        /\ elems(out) = { record_line(hexdigest("hello")), record_line(hexdigest("world")) }
        /\ result[3] = None
        /\ submitted = 3
        /\ done = 3
        /\ errors = 0

\* C4: when every worker completes normally, each submitted task is drained
\* exactly once whatever the completion order: no result is processed twice,
\* none is lost (a submitted task is in flight or has been drained once), no
\* path is submitted twice, and at the end of the run the in-flight list is
\* empty and submitted = done.
C4_DrainedExactlyOnce ==
    ~broken =>
        /\ \A i \in Tasks : ndrained[i] <= 1
        /\ \A i \in Tasks : is_submitted(i) =>
               (is_drained(i) <=> i \notin elems(futures))
        /\ \A i \in Tasks : ~is_submitted(i) => ~is_drained(i) /\ i \notin elems(futures)
        /\ Cardinality(elems(futures)) = Len(futures)
        /\ submitted = Cardinality({ i \in Tasks : is_submitted(i) })
        /\ \A i, j \in Tasks : Walk[i].path = Walk[j].path => i = j
        /\ done = Cardinality({ i \in Tasks : is_drained(i) })
        /\ pc = "done" =>
               /\ futures = <<>>
               /\ submitted = done
               /\ \A i \in Tasks : ndrained[i] = 1

\* C4 happens: a run of six files ends with the empty file (fifth submitted)
\* recorded before sub/c (fourth submitted)
C4_Witness ==
    /\ pc = "done"
    /\ ~broken
    /\ nfiles = 6
    /\ submitted = 6
    /\ done = 6
    /\ Len(out) >= 4
    /\ out[3] = record_line(hexdigest(""))
    /\ out[4] = record_line(hexdigest("world"))

\* C5: a worker process that dies on one task does not reach the
\* coordinator: hash_all never aborts.
C5_CrashContained == broken => pc /= "aborted"

\* C6: if the read of one task blocks forever while a second worker keeps
\* serving the other tasks, the coordinator is not stalled: until it has
\* walked the whole tree and drained every other task, the coordinator or a
\* worker that returns always has a step to take.  (A worker process that
\* dies is C5's case.)
C6_HangDoesNotStall ==
    (hung /= 0 /\ workers >= 2 /\ ~broken) =>
        \/ ENABLED Coordinator
        \/ ENABLED Worker
        \/ (nextIdx > nfiles /\ \A i \in Tasks \ {hung} : is_drained(i))

\* C7: path_on_skipped_mount(p, M) is true exactly when some m of M is p or
\* an ancestor directory of p by whole components, the root / included.
C7_MountPrefix ==
    qpc = "ret" => (qres <=> under_excluded(qpath, qmounts))

\* C8: a worker never opens a path that is under an excluded mount or that
\* its lstat did not show as a regular file, and a task whose path is
\* ineligible in either way finishes with (path, None).
C8_NoOpenOfIneligible ==
    \A i \in Tasks :
        /\ opened[i] /= "-" =>
               /\ ~under_excluded(Walk[i].path, skip_mounts)
               /\ probed[i] /= "-"
               /\ is_regular_file(probed[i])
        /\ (/\ fstate[i] = "finished"
            /\ result[i] /= BrokenProcessPool
            /\ \/ under_excluded(Walk[i].path, skip_mounts)
               \/ (probed[i] /= "-" /\ ~is_regular_file(probed[i]))) =>
               result[i] = None

\* C9: no record is appended for a symbolic link, a directory or a special
\* file, also while the tree is being modified: every task whose digest was
\* recorded read a path that was a regular file when it was read.
C9_NoRecordForNonRegular ==
    \A i \in Tasks :
        (is_drained(i) /\ result[i] /= BrokenProcessPool /\ truthy(result[i])) =>
            opened[i] = "reg"

\* the kinds on which open() or read() raises
FailKinds == {"noperm", "badio", "gone"}

\* C10: a submitted file that cannot be opened or read gives the result None
\* (no digest of what was read so far); drained, it is counted once in done
\* and once in errors and adds no record (done, errors and the number of
\* records are exactly the drained tasks, the drained tasks without digest
\* and the drained tasks with one); the run does not abort and at its end
\* every other file has been drained too.
C10_ReadFailureCounted ==
    ~broken =>
        /\ \A i \in Tasks : (fstate[i] = "finished" /\ opened[i] \in FailKinds) =>
               result[i] = None
        /\ done = Cardinality({ i \in Tasks : ndrained[i] = 1 })
        /\ errors = Cardinality({ i \in Tasks : ndrained[i] = 1 /\ result[i] = None })
        /\ Len(out) = Cardinality({ i \in Tasks : ndrained[i] = 1 /\ result[i] /= None })
        /\ \A i \in Tasks : ndrained[i] <= 1
        /\ pc /= "aborted"
        /\ pc = "done" => \A i \in Tasks : ndrained[i] = 1

\* C10 happens: a run ends in which a file lost its read permission after it
\* was found regular, and the files around it were recorded
C10_Witness ==
    /\ pc = "done"
    /\ ~broken
    /\ nfiles >= 3
    /\ \E i \in Tasks :
           /\ probed[i] = "reg"
           /\ opened[i] = "noperm"
           /\ is_drained(i)
           /\ \E j, k \in Tasks : j < i /\ i < k /\ result[j] /= None /\ result[k] /= None

\* how many lines of a list are the line r
occurrences(list, r) == Cardinality({ k \in 1..Len(list) : list[k] = r })

\* C11: after every drained result the number of records written in this run
\* is done - errors: each drained result with a digest has passed through
\* check_hash once and left exactly one line, the line of its digest, and each
\* drained None has raised done and errors and left nothing.
C11_RecordsAreDoneMinusErrors ==
    /\ Len(out) = done - errors
    /\ errors <= done
    /\ \A k \in 1..Len(out) :
           /\ out[k][2] = (IF check_hash(out[k][1]).boolean THEN "TRUE" ELSE "FALSE")
           /\ out[k][3] = check_hash(out[k][1]).reason
           /\ occurrences(out, out[k]) =
                  Cardinality({ i \in Tasks : /\ is_drained(i)
                                              /\ result[i] /= BrokenProcessPool
                                              /\ result[i] /= None
                                              /\ record_line(result[i]) = out[k] })
    /\ \A i \in Tasks :
           (is_drained(i) /\ result[i] /= BrokenProcessPool /\ result[i] /= None) =>
               occurrences(out, record_line(result[i])) >= 1

\* C11 happens: results with and without digest have been drained
C11_Witness ==
    /\ done >= 4
    /\ errors >= 1
    /\ Len(out) >= 3
    /\ pc = "final"

\* C12: every batch drain, not only the first, drains about half of the tasks
\* that are in flight when it starts: half, rounded down or up.
C12_BatchDrainsHalf ==
    (pc = "drain" /\ count = 0) =>
        /\ 2 * Cardinality(snapshot) >= Len(futures) - 1
        /\ 2 * Cardinality(snapshot) <= Len(futures) + 1

\* s is the beginning of t
is_prefix(s, t) == Len(s) <= Len(t) /\ SubSeq(t, 1, Len(s)) = s

\* C14: the records written and not yet flushed never number more than
\* PROGRESS_EVERY, and none is left unflushed when hash_all has returned (or
\* has been left by an exception).
C14_UnflushedBounded ==
    /\ Len(buffer) <= PROGRESS_EVERY
    /\ pc \in {"done", "aborted"} => buffer = <<>>
    /\ outfile \o buffer = prior \o out

\* C14 happens: a run has returned after flushes at the interval and at
\* the end, with records written since the last interval flush
C14_Witness ==
    /\ pc = "done"
    /\ done > PROGRESS_EVERY
    /\ done % PROGRESS_EVERY /= 0
    /\ Len(out) >= PROGRESS_EVERY
    /\ outfile = prior \o out

\* C15: the output file is append-only: what it held before the run stays its
\* beginning, and every step leaves what it holds as the beginning of what it
\* holds next, adding whole record lines of this run at the end.
C15_AppendOnly ==
    /\ [](is_prefix(prior, outfile) /\ is_prefix(outfile, prior \o out))
    /\ [][is_prefix(outfile, outfile')]_vars

\* C15 happens: a run on a file that held a record has added its own
C15_Witness ==
    /\ prior /= <<>>
    /\ Len(outfile) >= Len(prior) + 2
    /\ pc = "done"

\* what is left to do: the steps each task still has before it is drained
\* (submit, probe, read, drain), and the end of the walk
Measure ==
    4 * Cardinality({ i \in Tasks : fstate[i] = "none" })
    + 3 * Cardinality({ i \in Tasks : fstate[i] = "pending" })
    + 2 * Cardinality({ i \in Tasks : fstate[i] = "hashing" })
    + Cardinality({ i \in Tasks : fstate[i] = "finished" /\ ~is_drained(i) })
    + (IF pc \in {"walk", "drain"} THEN 1 ELSE 0)

\* C13: on a finite tree whose tasks all complete (no read hangs, no worker
\* dies) hash_all terminates: until it has returned, the coordinator or a
\* worker always has a step to take, every step brings the end nearer, the
\* run ends only out of the final drain (or out of a walk that left nothing in
\* flight), and when it ends the whole tree has been walked, the in-flight
\* list is empty and the summary counts every task.
C13_Terminates ==
    /\ []((hung = 0 /\ ~broken /\ pc /= "done") =>
              (ENABLED Coordinator \/ ENABLED Worker))
    /\ [][(hung' = 0 /\ ~broken') => Measure' < Measure]_vars
    /\ [][(pc' = "done" /\ pc /= "done") =>
              \/ (pc = "final" /\ snapshot' = {} /\ futures' = <<>>)
              \/ (pc = "walk" /\ nextIdx > nfiles /\ futures = <<>>)]_vars
    /\ []((pc = "final" /\ ~broken) => snapshot = elems(futures))
    /\ []((pc = "done" /\ ~broken) =>
              /\ nextIdx > nfiles
              /\ futures = <<>>
              /\ snapshot = {}
              /\ done = submitted
              /\ Measure = 0)

\* C13 happens: a run of the largest tree has returned out of a final drain,
\* with no hang and no crash
C13_Witness ==
    /\ pc = "done"
    /\ hung = 0
    /\ ~broken
    /\ nfiles = MaxFiles
    /\ submitted >= SUBMIT_BATCH + 2
    /\ done = submitted
    /\ futures = <<>>

\* the fields of a line: what white space separates, read character by
\* character
RECURSIVE fields(_)
fields(s) ==
    IF s = <<>> THEN <<>>
    ELSE IF Head(s) \in {" ", "\t", "\n"} THEN fields(Tail(s))
    ELSE LET n == CHOOSE m \in 1..Len(s) :
                      /\ \A j \in 1..m : s[j] \notin {" ", "\t", "\n"}
                      /\ (m = Len(s) \/ s[m + 1] \in {" ", "\t", "\n"})
         IN  <<SubSeq(s, 1, n)>> \o fields(SubSeq(s, n + 1, Len(s)))

\* the first dash that stands as a field between other fields, 0 when there
\* is none (the fields of the tables are separated by single spaces, as the
\* kernel writes them)
dash_field(f) ==
    LET at == { k \in 2..(Len(f) - 1) : f[k] = <<"-">> }
    IN  IF at = {} THEN 0 ELSE CHOOSE a \in at : \A b \in at : a <= b

\* a line is a parseable entry of the table at path
parseable(path, line) ==
    IF path = mountinfo THEN dash_field(fields(line)) >= 6
    ELSE Len(fields(line)) >= 3

\* the mount point and the type of a parseable line
mountpoint_of(path, line) ==
    IF path = mountinfo THEN fields(line)[5] ELSE fields(line)[2]

fstype_of(path, line) ==
    IF path = mountinfo THEN fields(line)[dash_field(fields(line)) + 1]
    ELSE fields(line)[3]

\* the type is on the denylist or begins with one of the prefixes
denied(fstype) ==
    \/ fstype \in SKIP_FS_TYPES
    \/ \E pfx \in SKIP_FS_PREFIXES :
           Len(pfx) <= Len(fstype) /\ \A k \in 1..Len(pfx) : fstype[k] = pfx[k]

\* a mount point as an absolute path: the separator before each of its names
absolute_of(p) ==
    LET names == components(IF p[1] = sep THEN p ELSE cwd \o <<sep>> \o p)
    IN  IF names = <<>> THEN <<sep>> ELSE <<sep>> \o join(sep, names)

\* p comes before q: longer first, and among equal lengths the one with the
\* smaller character at the first difference
comes_before(p, q) ==
    \/ Len(p) > Len(q)
    \/ /\ Len(p) = Len(q)
       /\ \E k \in 1..Len(p) :
              /\ \A j \in 1..(k - 1) : p[j] = q[j]
              /\ ord(p[k]) < ord(q[k])

C17_UnreadableFailsOpen ==
    ~mounttab.readable =>
        /\ skip_mounts = <<>>
        /\ \A i \in Tasks :
               (fstate[i] \in {"hashing", "finished"} /\ result[i] /= BrokenProcessPool) =>
                   probed[i] /= "-"
        /\ ~broken => pc /= "aborted"
        /\ (pc = "done" /\ ~broken) =>
               /\ submitted = nfiles
               /\ \A i \in Tasks : is_drained(i) /\ probed[i] = Walk[i].kind

\* C17 happens: with an unreadable table that lists /r/s, a run has ended
\* with the files of /r/s hashed and recorded
C17_Witness ==
    /\ ~mounttab.readable
    /\ mounttab.lines /= <<>>
    /\ pc = "done"
    /\ nfiles >= 5
    /\ opened[4] = "reg"
    /\ result[4] = hexdigest("world")
    /\ Len(out) >= 4

\* the place of x in a list without repetition, 0 when it is not there
position(list, x) ==
    IF \E k \in 1..Len(list) : list[k] = x
    THEN CHOOSE k \in 1..Len(list) : list[k] = x
    ELSE 0

\* C20: a partial drain drain(n) with at least n tasks in flight waits on
\* exactly the n earliest-submitted in-flight futures (what is left of its
\* snapshot is the head of the in-flight list, submitted before every other
\* task in flight), drains only futures of the snapshot, each in the order
\* of completion (no other finished future of the snapshot finished before
\* the one it processes), and returns only when all n have been processed and
\* removed.
C20_PartialDrain ==
    /\ [](pc = "drain" =>
              /\ snapshot \subseteq elems(futures)
              /\ count + Cardinality(snapshot) = batch_n
              /\ \A i \in snapshot : \A j \in elems(futures) \ snapshot : i < j)
    /\ [][pc = "drain" =>
              \A i \in Tasks : ndrained'[i] > ndrained[i] =>
                  /\ i \in snapshot
                  /\ fstate[i] = "finished"
                  /\ \A j \in snapshot \ {i} :
                         fstate[j] = "finished" =>
                             position(completed, i) < position(completed, j)]_vars
    /\ [][(pc = "drain" /\ pc' = "walk") =>
              /\ snapshot' = {}
              /\ count' = batch_n
              /\ Len(futures') = Len(futures) - 1]_vars

\* the tasks of zero-byte regular files outside the excluded mounts
zero_byte_eligible ==
    { i \in Tasks : /\ Walk[i].kind = "reg"
                    /\ Walk[i].content = ""
                    /\ ~under_excluded(Walk[i].path, skip_mounts) }

\* C18: a zero-byte regular file outside the excluded mounts gives a digest
\* that is not null and that drain takes for a success: the finished task
\* holds the digest of the empty input; drained, it has left one record of
\* that digest (the records of that digest are one for each drained task that
\* read no byte) and is not among the drained tasks that errors counts.
C18_ZeroByteFileRecorded ==
    /\ \A i \in zero_byte_eligible :
           (fstate[i] = "finished" /\ result[i] /= BrokenProcessPool) =>
               /\ result[i] /= None
               /\ truthy(result[i])
               /\ result[i] = hexdigest("")
    /\ occurrences(out, record_line(hexdigest(""))) =
           Cardinality({ i \in Tasks : /\ is_drained(i)
                                       /\ result[i] /= BrokenProcessPool
                                       /\ result[i] /= None
                                       /\ result[i] = hexdigest("") })
    /\ errors = Cardinality({ i \in Tasks : /\ is_drained(i)
                                            /\ result[i] /= BrokenProcessPool
                                            /\ ~truthy(result[i]) })
    /\ \A i \in zero_byte_eligible :
           (is_drained(i) /\ result[i] /= BrokenProcessPool) =>
               /\ occurrences(out, record_line(hexdigest(""))) >= 1
               /\ errors <= done - 1

\* C18 happens: with /r/s excluded, a run has ended with the empty file
\* /r/sb/c recorded and the empty file /r/s/a skipped
C18_Witness ==
    /\ pc = "done"
    /\ nfiles = 8
    /\ 8 \in zero_byte_eligible
    /\ 5 \notin zero_byte_eligible
    /\ is_drained(8)
    /\ result[5] = None
    /\ occurrences(out, record_line(hexdigest(""))) = 1

\* C19: whenever the coordinator is between two whole steps (it has not been
\* left by an exception) submitted = done + the number of futures in flight
\* and errors <= done <= submitted, and no step lowers submitted, done or
\* errors.
C19_CountersConsistent ==
    /\ [](pc /= "aborted" =>
              /\ submitted = done + Len(futures)
              /\ errors <= done
              /\ done <= submitted)
    /\ [][/\ submitted' >= submitted
          /\ done' >= done
          /\ errors' >= errors]_vars

\* C19 happens: in the middle of a batch drain, with results drained with
\* and without digest and tasks still in flight
C19_Witness ==
    /\ pc = "drain"
    /\ count = 1
    /\ submitted = 2 * SUBMIT_BATCH
    /\ errors >= 1
    /\ done > errors
    /\ Len(futures) >= 3
    /\ submitted = done + Len(futures)

====
